---- MODULE Spec2Model ----
(***************************************************************************)
(* hyperfine, src/main.rs: the top-level orchestration of a benchmark run. *)
(*                                                                         *)
(* The state machine follows run_benchmarks_and_print_comparison and main  *)
(* call by call.  Init is the state in which run() has built the options,  *)
(* the commands and the export manager and is about to call                *)
(* run_benchmarks_and_print_comparison.  Every call to a collaborator      *)
(* (mean_shell_spawning_time, run_benchmark, ExportManager::write_results, *)
(* write_benchmark_comparison) is one step; `trace' records the calls in   *)
(* the order in which they are made.                                       *)
(*                                                                         *)
(* Option<T> is modelled as a sequence of length 0 (None) or 1 (Some).     *)
(* Result<T, E> is a record [ok, err, val].                                *)
(***************************************************************************)
EXTENDS Integers, Sequences, FiniteSets, TLC

\* ------------------------------------------------------------------ bounds
MaxCommands == 3      \* commands on the command line: 1..MaxCommands
MaxPrepare == 3       \* '--prepare' occurrences: 1..MaxPrepare
MaxMean == 2          \* mean times are drawn from 0..MaxMean
MaxSpawnTime == 2     \* calibrated shell spawning time: 1..MaxSpawnTime

\* ------------------------------------------------------- basic data types
None == <<>>
Some(x) == <<x>>
IsSome(o) == Len(o) = 1
Unwrap(o) == o[1]

OutputStyleOption == {"Full", "Basic", "NoWarnings", "Disabled"}

\* Command: identified by its position in the input sequence (1-based).
Commands(n) == [i \in 1..n |-> i]

\* Options: the fields main.rs reads.
OptionsSet ==
    [ output_style : OutputStyleOption,
      preparation_command :
          {None} \cup {Some([i \in 1..p |-> i]) : p \in 1..MaxPrepare} ]

\* BenchmarkResult: the fields main.rs and its comparison step read.
BenchmarkResult(cmd, mean) == [command |-> cmd, mean |-> mean]

Ok(v) == [ok |-> TRUE, err |-> "", val |-> v]
Err(e) == [ok |-> FALSE, err |-> e, val |-> 0]

\* The errors run_benchmark can return.
BenchmarkErrors == {"setup_failed", "command_failed"}

PrepareMessage == "The '--prepare' option has to be provided just once or N times"

\* ------------------------------------------------------ relative_speed
Min(S) == CHOOSE x \in S : \A y \in S : x <= y

\* relative_speed::compare_mean_time: "Less", "Equal" or "Greater".
compare_mean_time(l, r) ==
    IF l.mean < r.mean THEN "Less"
    ELSE IF l.mean > r.mean THEN "Greater"
    ELSE "Equal"

\* relative_speed::compute: None when the fastest mean is zero, otherwise one
\* annotated result per result, in the order of the results; relative_speed
\* is the ratio mean / fastest.mean, kept as numerator and denominator.
compute(results) ==
    LET fastest == Min({results[i].mean : i \in 1..Len(results)})
    IN  IF fastest = 0 THEN None
        ELSE Some([i \in 1..Len(results) |->
                     [result |-> results[i],
                      speed_num |-> results[i].mean,
                      speed_den |-> fastest]])

\* ---------------------------------------------------------- slice::sort_by
\* Variant: x goes before the elements that compare Equal to it.
InsertStableReversed(sorted, x) ==
    LET before == {k \in 0..Len(sorted) :
                     \A j \in 1..k : compare_mean_time(sorted[j].result, x.result) = "Less"}
        k == CHOOSE m \in before : \A n \in before : n <= m
    IN  SubSeq(sorted, 1, k) \o <<x>> \o SubSeq(sorted, k + 1, Len(sorted))

\* A stable sort: x goes after every element that does not compare Greater
\* than it, so equal elements keep their relative order.
InsertStable(sorted, x) ==
    LET before == {k \in 0..Len(sorted) :
                     \A j \in 1..k : compare_mean_time(sorted[j].result, x.result) # "Greater"}
        k == CHOOSE m \in before : \A n \in before : n <= m
    IN  SubSeq(sorted, 1, k) \o <<x>> \o SubSeq(sorted, k + 1, Len(sorted))

RECURSIVE sort_by(_)
sort_by(s) ==
    IF Len(s) = 0 THEN <<>>
    ELSE InsertStable(sort_by(SubSeq(s, 1, Len(s) - 1)), s[Len(s)])

\* ------------------------------------------- write_benchmark_comparison
Line(text, cmd, num, den) ==
    [text |-> text, command |-> cmd, speed_num |-> num, speed_den |-> den]

SummaryLines(annotated) ==
    LET fastest == annotated[1]
    IN  << Line("Summary", 0, 0, 0), Line("ran", fastest.result.command, 0, 0) >>
        \o [k \in 1..(Len(annotated) - 1) |->
              Line("times faster than", annotated[k + 1].result.command,
                   annotated[k + 1].speed_num, annotated[k + 1].speed_den)]

NoteLine == Line("Note: The benchmark comparison could not be computed", 0, 0, 0)

\* Variant: the guard lets a single result through.
TooFewResultsOne(results) == Len(results) < 1

\* if results.len() < 2 { return; }
TooFewResults(results) == Len(results) < 2

\* Variant: nothing is printed when compute returns None.
WriteComparisonSilentOnNone(results) ==
    IF TooFewResults(results)
    THEN [out |-> <<>>, err |-> <<>>, computed |-> 0]
    ELSE LET annotated_results == compute(results)
         IN  IF IsSome(annotated_results)
             THEN [out |-> SummaryLines(sort_by(Unwrap(annotated_results))),
                   err |-> <<>>, computed |-> 1]
             ELSE [out |-> <<>>, err |-> <<>>, computed |-> 1]

\* The lines written to stdout and stderr, and the number of calls made to
\* relative_speed::compute.
write_benchmark_comparison(results) ==
    IF TooFewResults(results)
    THEN [out |-> <<>>, err |-> <<>>, computed |-> 0]
    ELSE LET annotated_results == compute(results)
         IN  IF IsSome(annotated_results)
             THEN [out |-> SummaryLines(sort_by(Unwrap(annotated_results))),
                   err |-> <<>>, computed |-> 1]
             ELSE [out |-> <<>>, err |-> <<NoteLine>>, computed |-> 1]

\* ------------------------------------------------------------------ state
VARIABLES
    commands,             \* run(): the commands, in input order
    options,              \* run(): the options
    pc,                   \* position in run_benchmarks_and_print_comparison / main
    shell_spawning_time,  \* Option: the calibrated value once it is bound
    timing_results,       \* the vector of results collected so far
    num,                  \* the loop index of the for loop (0-based)
    result,               \* Option: what run() returned
    stdout,               \* lines printed to standard output
    stderr,               \* lines printed to standard error
    exit_code,            \* Option: the exit code of the process
    trace,                \* the calls made to collaborators, in order
    compute_calls         \* calls made to relative_speed::compute

vars == << commands, options, pc, shell_spawning_time, timing_results, num,
           result, stdout, stderr, exit_code, trace, compute_calls >>

\* One call: the callee, the command index and the shell spawning time it was
\* given (run_benchmark), the data it was given (write_results, and the
\* results handed to write_benchmark_comparison), and how it returned.
Event(op, n, sst, r, data) ==
    [op |-> op, num |-> n, sst |-> sst, ok |-> r.ok, err |-> r.err, data |-> data]

Init ==
    /\ \E n \in 1..MaxCommands : commands = Commands(n)
    /\ options \in OptionsSet
    /\ pc = "calibrate"
    /\ shell_spawning_time = None
    /\ timing_results = <<>>
    /\ num = 0
    /\ result = None
    /\ stdout = <<>>
    /\ stderr = <<>>
    /\ exit_code = None
    /\ trace = <<>>
    /\ compute_calls = 0

\* The `?' operator on an Err: run() returns the error to main.
Propagate(e) ==
    /\ result' = Some(Err(e))
    /\ pc' = "main"

\* Variant: the run goes on after a failed calibration.
CalibrateIgnoringFailure ==
    /\ pc = "calibrate"
    /\ \E r \in {Ok(t) : t \in 1..MaxSpawnTime} \cup {Err("shell_spawn_failed")} :
         /\ trace' = Append(trace, Event("calibrate", 0, r.val, r, <<>>))
         /\ shell_spawning_time' = Some(r.val)
         /\ timing_results' = <<>>
         /\ pc' = "check_prepare"
         /\ UNCHANGED result
    /\ UNCHANGED << commands, options, num, stdout, stderr, exit_code, compute_calls >>

\* let shell_spawning_time = mean_shell_spawning_time(...)?;
\* let mut timing_results = vec![];
Calibrate ==
    /\ pc = "calibrate"
    /\ \E r \in {Ok(t) : t \in 1..MaxSpawnTime} \cup {Err("shell_spawn_failed")} :
         /\ trace' = Append(trace, Event("calibrate", 0, r.val, r, <<>>))
         /\ IF r.ok
            THEN /\ shell_spawning_time' = Some(r.val)
                 /\ timing_results' = <<>>
                 /\ pc' = "check_prepare"
                 /\ UNCHANGED result
            ELSE /\ Propagate(r.err)
                 /\ UNCHANGED << shell_spawning_time, timing_results >>
    /\ UNCHANGED << commands, options, num, stdout, stderr, exit_code, compute_calls >>

\* Variant: only a '--prepare' list longer than the commands is a mismatch.
PrepareMismatchOnlyShorter(cmds, prep) ==
    /\ IsSome(prep)
    /\ Len(Unwrap(prep)) > 1
    /\ Len(cmds) < Len(Unwrap(prep))

\* if let Some(preparation_command) = &options.preparation_command {
\*     if preparation_command.len() > 1 && commands.len() != preparation_command.len()
PrepareMismatch(cmds, prep) ==
    /\ IsSome(prep)
    /\ Len(Unwrap(prep)) > 1
    /\ Len(cmds) # Len(Unwrap(prep))

\* The state of the for loop once the iteration for index n is over.
LoopNext(n) ==
    /\ num' = n
    /\ pc' = IF n < Len(commands) THEN "bench" ELSE "compare"

CheckPreparation ==
    /\ pc = "check_prepare"
    /\ IF PrepareMismatch(commands, options.preparation_command)
       THEN /\ Propagate(PrepareMessage)
            /\ UNCHANGED num
       ELSE /\ LoopNext(0)
            /\ UNCHANGED result
    /\ UNCHANGED << commands, options, shell_spawning_time, timing_results,
                    stdout, stderr, exit_code, trace, compute_calls >>

\* The outcomes of run_benchmark(num, cmd, shell_spawning_time, options).
run_benchmark(n, cmd) ==
    {Ok(BenchmarkResult(cmd, m)) : m \in 0..MaxMean} \cup {Err(e) : e \in BenchmarkErrors}

\* Variant: the result is inserted at the front.
PushFront(results, r) == <<r>> \o results

\* timing_results.push(...)
Push(results, r) == Append(results, r)

\* Variant: a failed benchmark is skipped and the loop goes on.
RunBenchmarkContinueOnError ==
    /\ pc = "bench"
    /\ \E r \in run_benchmark(num, commands[num + 1]) :
         /\ trace' = Append(trace, Event("bench", num, Unwrap(shell_spawning_time), r,
                                         IF r.ok THEN <<r.val>> ELSE <<>>))
         /\ IF r.ok
            THEN /\ timing_results' = Push(timing_results, r.val)
                 /\ pc' = "export"
                 /\ UNCHANGED << result, num >>
            ELSE /\ LoopNext(num + 1)
                 /\ UNCHANGED << timing_results, result >>
    /\ UNCHANGED << commands, options, shell_spawning_time, stdout, stderr,
                    exit_code, compute_calls >>

\* Variant: the loop goes on without the intermediate export.
RunBenchmarkSkipExport ==
    /\ pc = "bench"
    /\ \E r \in run_benchmark(num, commands[num + 1]) :
         /\ trace' = Append(trace, Event("bench", num, Unwrap(shell_spawning_time), r,
                                         IF r.ok THEN <<r.val>> ELSE <<>>))
         /\ IF r.ok
            THEN /\ timing_results' = Push(timing_results, r.val)
                 /\ LoopNext(num + 1)
                 /\ UNCHANGED result
            ELSE /\ Propagate(r.err)
                 /\ UNCHANGED << timing_results, num >>
    /\ UNCHANGED << commands, options, shell_spawning_time, stdout, stderr,
                    exit_code, compute_calls >>

\* timing_results.push(run_benchmark(num, cmd, shell_spawning_time, options)?);
RunBenchmark ==
    /\ pc = "bench"
    /\ \E r \in run_benchmark(num, commands[num + 1]) :
         /\ trace' = Append(trace, Event("bench", num, Unwrap(shell_spawning_time), r,
                                         IF r.ok THEN <<r.val>> ELSE <<>>))
         /\ IF r.ok
            THEN /\ timing_results' = Push(timing_results, r.val)
                 /\ pc' = "export"
                 /\ UNCHANGED << result, num >>
            ELSE /\ Propagate(r.err)
                 /\ UNCHANGED << timing_results, num >>
    /\ UNCHANGED << commands, options, shell_spawning_time, stdout, stderr,
                    exit_code, compute_calls >>

\* Variant: only the last result is handed over.
ExportDataLastOnly(results) == << results[Len(results)] >>

\* The argument of write_results: &timing_results.
ExportData(results) == results

\* export_manager.write_results(&timing_results, options.time_unit)?;
WriteResults ==
    /\ pc = "export"
    /\ \E r \in {Ok(0), Err("export_failed")} :
         /\ trace' = Append(trace, Event("export", num, 0, r, ExportData(timing_results)))
         /\ IF r.ok
            THEN /\ LoopNext(num + 1)
                 /\ UNCHANGED result
            ELSE /\ Propagate(r.err)
                 /\ UNCHANGED num
    /\ UNCHANGED << commands, options, shell_spawning_time, timing_results,
                    stdout, stderr, exit_code, compute_calls >>

\* if options.output_style != OutputStyleOption::Disabled {
\*     write_benchmark_comparison(&timing_results);
\* }
\* Ok(())
PrintComparison ==
    /\ pc = "compare"
    /\ IF options.output_style # "Disabled"
       THEN LET w == write_benchmark_comparison(timing_results)
            IN  /\ stdout' = stdout \o w.out
                /\ stderr' = stderr \o w.err
                /\ compute_calls' = compute_calls + w.computed
                /\ trace' = Append(trace, Event("compare", 0, 0, Ok(0), timing_results))
       ELSE UNCHANGED << stdout, stderr, compute_calls, trace >>
    /\ result' = Some(Ok(0))
    /\ pc' = "main"
    /\ UNCHANGED << commands, options, shell_spawning_time, timing_results, num,
                    exit_code >>

\* Variant: main returns normally whatever run() returned.
ExitCodeAlwaysZero(r) == 0

\* main: the exit code of the process for what run() returned.
ExitCode(r) == IF r.ok THEN 0 ELSE 1

ErrorLine == Line("Error:", 0, 0, 0)

\* match run() { Ok(_) => {} Err(e) => { eprintln!(...); std::process::exit(1); } }
Main ==
    /\ pc = "main"
    /\ stderr' = IF Unwrap(result).ok THEN stderr ELSE Append(stderr, ErrorLine)
    /\ exit_code' = Some(ExitCode(Unwrap(result)))
    /\ pc' = "exited"
    /\ UNCHANGED << commands, options, shell_spawning_time, timing_results, num,
                    result, stdout, trace, compute_calls >>

Next ==
    \/ Calibrate
    \/ CheckPreparation
    \/ RunBenchmark
    \/ WriteResults
    \/ PrintComparison
    \/ Main

Spec == Init /\ [][Next]_vars

TypeOK ==
    /\ pc \in {"calibrate", "check_prepare", "bench", "export", "compare", "main", "exited"}
    /\ num \in 0..Len(commands)
    /\ Len(timing_results) <= Len(commands)
    /\ compute_calls \in 0..1

\* ------------------------------------------------------ reading the trace
\* The positions in the trace of the calls to one callee.
Calls(op) == {k \in 1..Len(trace) : trace[k].op = op}

IsLoopCall(e) == e.op \in {"bench", "export"}

\* The calls made by the for loop, in order.
LoopCalls == SelectSeq(trace, IsLoopCall)

Exited == pc = "exited"

Failed == IsSome(result) /\ ~Unwrap(result).ok

NumCommands == Len(commands)

\* The length of the '--prepare' list, 0 when the option is absent.
NumPrepare ==
    IF IsSome(options.preparation_command)
    THEN Len(Unwrap(options.preparation_command)) ELSE 0

NotePrinted == \E k \in 1..Len(stderr) : stderr[k] = NoteLine

SummaryPrinted == \E k \in 1..Len(stdout) : stdout[k].text = "Summary"

\* ------------------------------------------------------------------- C1
\* C1: with a '--prepare' list of length P > 1 and P # N, run_benchmark is
\* never invoked, the export manager is never written to, and the run ends in
\* a fatal error (the '--prepare' message, unless calibration already failed)
\* with a non-zero exit code.
C1_PrepareMismatchAborts ==
    (NumPrepare > 1 /\ NumPrepare # NumCommands) =>
        /\ Calls("bench") = {}
        /\ Calls("export") = {}
        /\ Calls("compare") = {}
        /\ pc \in {"calibrate", "check_prepare", "main", "exited"}
        /\ pc \in {"main", "exited"} =>
              /\ Failed
              /\ Unwrap(result).err \in {PrepareMessage, "shell_spawn_failed"}
        /\ Exited => exit_code = Some(1)

\* Two '--prepare' commands for three benchmark commands: the run has ended
\* with the '--prepare' error.
C1_Witness ==
    /\ Exited
    /\ NumCommands = 3
    /\ NumPrepare = 2
    /\ Unwrap(result).err = PrepareMessage

\* ------------------------------------------------------------------- C2
\* C2 as stated: when the benchmark of command i < N-1 fails with a
\* per-command execution failure, every command j > i has been benchmarked by
\* the time the run has ended.
C2_LaterCommandsStillRun ==
    Exited =>
        \A k \in Calls("bench") :
            (trace[k].err = "command_failed" /\ trace[k].num < NumCommands - 1) =>
                \A j \in (trace[k].num + 1)..(NumCommands - 1) :
                    \E m \in Calls("bench") : trace[m].num = j

\* C2 amended: when the benchmark of a command fails with a per-command
\* execution failure, no command that follows it in the input sequence is
\* benchmarked; the failed call is the last call of the run, the error is
\* what run() returns and the process exits with code 1.
C2_FailureEndsRun ==
    \A k \in Calls("bench") :
        trace[k].err = "command_failed" =>
            /\ \A m \in Calls("bench") : trace[m].num <= trace[k].num
            /\ k = Len(trace)
            /\ result = Some(Err("command_failed"))
            /\ Exited => exit_code = Some(1)

\* The first of three commands failed and the run has ended.
C2_Witness ==
    /\ Exited
    /\ NumCommands = 3
    /\ \E k \in Calls("bench") : trace[k].num = 0 /\ trace[k].err = "command_failed"

\* ------------------------------------------------------------------- C3
\* C3 as stated: the data handed to the export manager after command i
\* contains the result of command i and of no other command.
C3_ExportOnlyThatCommand ==
    \A k \in Calls("export") :
        /\ Len(trace[k].data) = 1
        /\ trace[k].data[1].command = commands[trace[k].num + 1]

\* C3 amended: the data handed to the export manager after command i
\* contains the results of the commands 0..i, one each; the last one is the
\* result run_benchmark has just returned for command i.
C3_ExportAllFinishedSoFar ==
    \A k \in Calls("export") :
        LET i == trace[k].num
            data == trace[k].data
        IN  /\ Len(data) = i + 1
            /\ \A j \in 0..i :
                 Cardinality({x \in 1..Len(data) : data[x].command = commands[j + 1]}) = 1
            /\ k > 1
            /\ trace[k - 1].op = "bench"
            /\ trace[k - 1].num = i
            /\ trace[k - 1].ok
            /\ data[Len(data)] = trace[k - 1].data[1]

\* The export after the second command has been made, with two results.
C3_Witness ==
    \E k \in Calls("export") : trace[k].num = 1 /\ Len(trace[k].data) = 2

\* ------------------------------------------------------------------- C4
\* C4: the calls of the loop form the sequence bench(0), export, bench(1),
\* export, ...: the call at an odd position 2i+1 is bench(i), the call at an
\* even position 2i+2 is the export following bench(i); a call is made only
\* after the call before it has returned successfully.
C4_BenchExportAlternate ==
    \A k \in 1..Len(LoopCalls) :
        /\ (k % 2 = 1) => (LoopCalls[k].op = "bench" /\ LoopCalls[k].num = (k - 1) \div 2)
        /\ (k % 2 = 0) => (LoopCalls[k].op = "export" /\ LoopCalls[k].num = (k - 2) \div 2)
        /\ k > 1 => LoopCalls[k - 1].ok

\* Three commands were benchmarked and exported.
C4_Witness ==
    /\ Exited
    /\ Len(LoopCalls) = 6
    /\ LoopCalls[5].op = "bench"
    /\ LoopCalls[5].num = 2

\* ------------------------------------------------------------------- C5
\* C5: mean_shell_spawning_time is called exactly once, as the first call of
\* the run; the value it returned stays bound to shell_spawning_time and is
\* the value every run_benchmark call is given; when it fails, run_benchmark
\* is never called.
C5_CalibratedOnce ==
    /\ Cardinality(Calls("calibrate")) = (IF pc = "calibrate" THEN 0 ELSE 1)
    /\ pc # "calibrate" =>
          /\ trace[1].op = "calibrate"
          /\ shell_spawning_time =
                (IF trace[1].ok THEN Some(trace[1].sst) ELSE None)
          /\ ~trace[1].ok => Calls("bench") = {}
          /\ \A k \in Calls("bench") : trace[k].sst = trace[1].sst

\* Calibration returned the value 2 and two commands were benchmarked with it.
C5_Witness ==
    /\ Exited
    /\ trace[1].sst = 2
    /\ \E k \in Calls("bench") : trace[k].num = 1

\* ------------------------------------------------------------------- C6
\* C6: once an error is raised (calibration, '--prepare' count, setup or any
\* other failure of run_benchmark, export), no further call is made: the
\* failed call is the last one, no comparison is printed, run() returns the
\* error and the process exits with code 1; a run without error exits with
\* code 0.
C6_FatalErrorAborts ==
    /\ \A k \in 1..Len(trace) :
          ~trace[k].ok =>
              /\ k = Len(trace)
              /\ result = Some(Err(trace[k].err))
    /\ Failed =>
          /\ pc \in {"main", "exited"}
          /\ Calls("compare") = {}
          /\ stdout = <<>>
          /\ ~NotePrinted
          /\ compute_calls = 0
          /\ Unwrap(result).err = PrepareMessage => Len(trace) = 1
          /\ Unwrap(result).err # PrepareMessage => ~trace[Len(trace)].ok
    /\ Exited => exit_code = Some(IF Failed THEN 1 ELSE 0)
    /\ Exited /\ ~Failed =>
          /\ \A k \in 1..Len(trace) : trace[k].ok
          /\ Len(LoopCalls) = 2 * NumCommands

\* The setup command of the second command failed; the process has exited.
C6_Witness ==
    /\ Exited
    /\ exit_code = Some(1)
    /\ Len(trace) = 4
    /\ trace[4].op = "bench"
    /\ trace[4].err = "setup_failed"

\* ------------------------------------------------------------------- C7
\* C7: when write_benchmark_comparison is given at least two results and
\* relative_speed::compute returns None for them, it prints the note and no
\* summary, and the run still succeeds with exit code 0; when compute
\* returns a value, it prints the summary and not the note.
C7_DegenerateComparisonIsSkipped ==
    \A k \in Calls("compare") :
        LET data == trace[k].data
            not_computable == ~IsSome(compute(data))
        IN  Len(data) >= 2 =>
                /\ not_computable =>
                      /\ NotePrinted
                      /\ stderr[1] = NoteLine
                      /\ stdout = <<>>
                /\ ~not_computable =>
                      /\ ~NotePrinted
                      /\ Len(stdout) = Len(data) + 1
                      /\ stdout[1].text = "Summary"
                /\ result = Some(Ok(0))
                /\ Exited => (exit_code = Some(0) /\ Len(stderr) = (IF not_computable THEN 1 ELSE 0))

\* Two commands, one of them with mean zero: the note was printed and the
\* process has exited with code 0.
C7_Witness ==
    /\ Exited
    /\ Len(timing_results) = 2
    /\ timing_results[2].mean = 0
    /\ stderr = <<NoteLine>>
    /\ exit_code = Some(0)

\* ------------------------------------------------------------------- C8
\* The mean of the result of the command c.
MeanOf(c) == timing_results[c].mean

\* The commands in the order in which the summary lists them.
SummaryOrder == [k \in 1..(Len(stdout) - 1) |-> stdout[k + 1].command]

\* C8: the summary lists every command once, in ascending order of mean
\* time, commands with equal means in input order; the first one, printed as
\* the reference ('ran'), is the earliest command among those with the
\* minimum mean.
C8_SummarySortedStable ==
    SummaryPrinted =>
        /\ Len(SummaryOrder) = NumCommands
        /\ {SummaryOrder[k] : k \in 1..Len(SummaryOrder)} = 1..NumCommands
        /\ \A a, b \in 1..Len(SummaryOrder) :
              a < b =>
                  \/ MeanOf(SummaryOrder[a]) < MeanOf(SummaryOrder[b])
                  \/ /\ MeanOf(SummaryOrder[a]) = MeanOf(SummaryOrder[b])
                     /\ SummaryOrder[a] < SummaryOrder[b]
        /\ stdout[2].text = "ran"
        /\ \A k \in 3..Len(stdout) : stdout[k].text = "times faster than"
        /\ \A c \in 1..NumCommands :
              \/ MeanOf(SummaryOrder[1]) < MeanOf(c)
              \/ MeanOf(SummaryOrder[1]) = MeanOf(c) /\ SummaryOrder[1] <= c

\* Means 2, 1, 1: the summary lists the second command, the third, the first.
C8_Witness ==
    /\ SummaryPrinted
    /\ NumCommands = 3
    /\ MeanOf(1) = 2 /\ MeanOf(2) = 1 /\ MeanOf(3) = 1
    /\ SummaryOrder = <<2, 3, 1>>

\* ------------------------------------------------------------------- C9
\* The k-th call to write_results.
IsExport(e) == e.op = "export"
Exports == SelectSeq(trace, IsExport)

IsBenchOk(e) == e.op = "bench" /\ e.ok
SucceededBenchmarks == Len(SelectSeq(trace, IsBenchOk))

\* C9: the k-th call to write_results receives the results of the commands
\* 0..k-1 in input order, the first k-1 of them as in the call before; the
\* number of calls made is the number of commands benchmarked successfully
\* (one less between the return of run_benchmark and the call that follows
\* it); after a successful run the last call has received all N results and
\* it is the last call of the loop.
C9_ExportGrowsAsPrefix ==
    /\ \A k \in 1..Len(Exports) :
          /\ Len(Exports[k].data) = k
          /\ \A j \in 1..k : Exports[k].data[j].command = commands[j]
          /\ k > 1 => SubSeq(Exports[k].data, 1, k - 1) = Exports[k - 1].data
    /\ SucceededBenchmarks = Len(timing_results)
    /\ Len(Exports) = SucceededBenchmarks - (IF pc = "export" THEN 1 ELSE 0)
    /\ (Exited /\ ~Failed) =>
          /\ Len(Exports) = NumCommands
          /\ Exports[NumCommands].data = timing_results
          /\ LoopCalls[Len(LoopCalls)] = Exports[NumCommands]

\* A successful run of three commands: three exports.
C9_Witness ==
    /\ Exited
    /\ ~Failed
    /\ NumCommands = 3
    /\ Len(Exports) = 3
    /\ Len(Exports[3].data) = 3

\* ------------------------------------------------------------------ C10
\* C10: with fewer than two results nothing is printed by the comparison
\* step and relative_speed::compute is not called; write_benchmark_comparison
\* is not invoked when output_style is Disabled; it is invoked at most once,
\* after every command has been benchmarked and exported successfully.
C10_ComparisonGated ==
    /\ Len(timing_results) < 2 =>
          /\ compute_calls = 0
          /\ stdout = <<>>
          /\ ~NotePrinted
    /\ options.output_style = "Disabled" =>
          /\ Calls("compare") = {}
          /\ compute_calls = 0
          /\ stdout = <<>>
          /\ ~NotePrinted
    /\ Cardinality(Calls("compare")) <= 1
    /\ compute_calls <= Cardinality(Calls("compare"))
    /\ \A k \in Calls("compare") :
          /\ k = Len(trace)
          /\ k = 2 * NumCommands + 2
          /\ \A m \in 1..(k - 1) : trace[m].ok
          /\ \A c \in 0..(NumCommands - 1) :
                /\ trace[2 * c + 2].op = "bench" /\ trace[2 * c + 2].num = c
                /\ trace[2 * c + 3].op = "export" /\ trace[2 * c + 3].num = c
          /\ trace[k].data = timing_results

\* A single command: write_benchmark_comparison was invoked and printed
\* nothing.
C10_Witness ==
    /\ Exited
    /\ NumCommands = 1
    /\ Calls("compare") # {}
    /\ compute_calls = 0
    /\ stdout = <<>>
    /\ stderr = <<>>
====
